---- MODULE Spec2Model ----
(***************************************************************************)
(* Mighty Mike framebuffer filter, palette manager and GL presentation.    *)
(*                                                                         *)
(*   framebufferfilter.c  (src/unnamed/part_001, older copy part_000)      *)
(*   palette.c            (src/unnamed/part_002)                           *)
(*   GLRender.c           (src/src/Drivers/GLRender.c)                     *)
(*                                                                         *)
(* Buffers are flat arrays addressed as the C code addresses them (base +  *)
(* row * pitch + column).  A colour is the tuple <<r, g, b, a>> of its     *)
(* four 8-bit channels; a 16-bit pixel is the 5-6-5 packed integer.        *)
(***************************************************************************)
EXTENDS Integers, Sequences, FiniteSets, TLC

VARIABLES
    build,                  \* [vita, depth]: the #if choices of the build
    stage,                  \* position of the caller in the specification being run
    gIndexedFramebuffer,    \* uint8_t[VISIBLE_HEIGHT * VISIBLE_WIDTH]
    gGamePalette,           \* 256 colours
    gRowDitherStrides,      \* uint8_t[NumThreads * VISIBLE_WIDTH], the smear flags
    memsetLog,              \* the memsets <<start, count>> of the last detector call
    flagsAtEntry,           \* the worker's flag row when the last detector call began
    color,                  \* the output colour buffer, VISIBLE_HEIGHT * RowPitch pixels
    colorAtEntry,           \* the output buffer as it was when the last call began
    last,                   \* the last call made: [op, threadNum, firstRow, numRows]
    colorx1,                \* DoublePixels' source image
    colorx2,                \* DoublePixels' destination image, twice as wide and high
    workers,                \* per thread: the position inside IndexedFramebufferToColor_FilterDithering
    gBackUpPalette,         \* palette.c's backup snapshot
    gSceenBlankedFlag,      \* palette.c: the screen is faded out
    fade,                   \* position inside FadeInGameCLUT / FadeOutGameCLUT
    gEffectiveScalingType,  \* the scaling mode the settings ask for
    drawableSize,           \* <<dw, dh>>: what SDL_GL_GetDrawableSize reports
    gGLContext,             \* GLRender.c: 0 (NULL) or the context
    gFrameTexture,          \* GLRender.c: 0 or the texture's name
    gFramePBO,              \* GLRender.c: 0 or the transfer buffer's name
    glTexImage,             \* the storage glTexImage2D gave the bound texture: [width, height]
    previousViewportRect,   \* static of GLRender_PresentFramebuffer
    previousEffectiveScalingType,   \* static of GLRender_PresentFramebuffer
    needClear,              \* static of GLRender_PresentFramebuffer
    glCalls,                \* the backend calls of the last GLRender_* call, in order
    frame,                  \* what the last GLRender_PresentFramebuffer saw and uploaded
    framesSinceChange       \* frames presented since the viewport last changed, that one included

vars == << build, stage, gIndexedFramebuffer, gGamePalette, gRowDitherStrides,
           memsetLog, flagsAtEntry, color, colorAtEntry, last, colorx1, colorx2, workers,
           gBackUpPalette, gSceenBlankedFlag, fade,
           gEffectiveScalingType, drawableSize, gGLContext, gFrameTexture, gFramePBO,
           glTexImage, previousViewportRect, previousEffectiveScalingType, needClear,
           glCalls, frame, framesSinceChange >>

\* The presentation driver's part of the state.
glVars == << gEffectiveScalingType, drawableSize, gGLContext, gFrameTexture, gFramePBO,
            glTexImage, previousViewportRect, previousEffectiveScalingType, needClear,
            glCalls, frame, framesSinceChange >>

----------------------------------------------------------------------------
(* Sizes.  The real frame is far larger; the scans below only ever look at *)
(* a pixel and its two neighbours, so a short row shows every case.        *)

VISIBLE_WIDTH == 7
VISIBLE_HEIGHT == 2
NumThreads == 2

\* kFrameTextureWidth (1024): the row pitch of the Vita texture, wider than a row.
kFrameTextureWidth == VISIBLE_WIDTH + 1

\* The frames that clear the draw target after the viewport changed.
SettleFrames == 60

THRESH == 2
BLEED == 1

\* The palette indices the modelled frames are drawn from.
IndexValues == {0, 5, 7}

Cols == 0 .. VISIBLE_WIDTH - 1
RowsOfFrame == 0 .. VISIBLE_HEIGHT - 1
Threads == 0 .. NumThreads - 1
FlagCells == 0 .. NumThreads * VISIBLE_WIDTH - 1

\* The pixels of row y of the indexed framebuffer, as a function of the column.
IndexedRow(fb, y) == [x \in Cols |-> fb[y * VISIBLE_WIDTH + x]]

FlagAddr_Shared(threadNum, x) == x

\* smearFlags + x, with smearFlags = gRowDitherStrides + threadNum * VISIBLE_WIDTH.
FlagAddr(threadNum, x) == threadNum * VISIBLE_WIDTH + x

\* The flag row of worker threadNum.
SmearFlags(flags, threadNum) == [x \in Cols |-> flags[FlagAddr(threadNum, x)]]

----------------------------------------------------------------------------
(* FilterDithering_Row: the scan's locals are the record                   *)
(*   [prev, me, ditherStart, ditherEnd, strides]                           *)
(* where strides is the set of memsets done so far, each <<start, count>>: *)
(* memset(rowSmearFlags + start, 1, count).                                *)

RowInit_SentinelZero(indexedRow) ==
    [prev |-> 0, me |-> indexedRow[0], ditherStart |-> 0, ditherEnd |-> -1, strides |-> {}]

RowInit(indexedRow) ==
    [prev |-> -1, me |-> indexedRow[0], ditherStart |-> 0, ditherEnd |-> -1, strides |-> {}]

CommitStride_NoBleed(s) ==
    LET ditherLength == s.ditherEnd - s.ditherStart
    IN  IF ditherLength > THRESH
        THEN s.strides \cup {<<s.ditherStart, ditherLength>>}
        ELSE s.strides

CommitStride_AtThreshold(s) ==
    LET ditherLength == s.ditherEnd - s.ditherStart
    IN  IF ditherLength >= THRESH
        THEN s.strides \cup {<<s.ditherStart, ditherLength + BLEED>>}
        ELSE s.strides

\* COMMIT_STRIDE: memset(rowSmearFlags + ditherStart, 1, ditherLength + BLEED).
CommitStride(s) ==
    LET ditherLength == s.ditherEnd - s.ditherStart
    IN  IF ditherLength > THRESH
        THEN s.strides \cup {<<s.ditherStart, ditherLength + BLEED>>}
        ELSE s.strides

RowStep_DitherFirst(indexedRow, s, x) ==
    LET next == indexedRow[x + 1]
        t == IF s.prev = next
             THEN [s EXCEPT !.ditherStart = IF s.ditherEnd < 0 THEN x - 1 ELSE @,
                            !.ditherEnd = x + 1]
             ELSE IF s.me = next \/ s.me = s.prev
             THEN [s EXCEPT !.strides = CommitStride(s), !.ditherEnd = -1]
             ELSE IF x = s.ditherEnd
             THEN s
             ELSE [s EXCEPT !.strides = CommitStride(s), !.ditherEnd = -1]
    IN  [t EXCEPT !.prev = s.me, !.me = next]

\* One iteration of the for loop over x.
RowStep(indexedRow, s, x) ==
    LET next == indexedRow[x + 1]
        t == IF s.me = next \/ s.me = s.prev            \* contiguous solid color
             THEN [s EXCEPT !.strides = CommitStride(s), !.ditherEnd = -1]
             ELSE IF s.prev = next                      \* middle of dithered stride
             THEN [s EXCEPT !.ditherStart = IF s.ditherEnd < 0 THEN x - 1 ELSE @,
                            !.ditherEnd = x + 1]
             ELSE IF x = s.ditherEnd                    \* used to dither previous column
             THEN s
             ELSE [s EXCEPT !.strides = CommitStride(s), !.ditherEnd = -1]
    IN  [t EXCEPT !.prev = s.me, !.me = next]

RECURSIVE RowScan(_, _, _)
\* The loop for (x = 0; x < VISIBLE_WIDTH-1; x++), from iteration x on.
RowScan(indexedRow, s, x) ==
    IF x < VISIBLE_WIDTH - 1
    THEN RowScan(indexedRow, RowStep(indexedRow, s, x), x + 1)
    ELSE s

\* The memsets of FilterDithering_Row: those of the loop, then "commit last".
FilterDithering_Row(indexedRow) ==
    CommitStride(RowScan(indexedRow, RowInit(indexedRow), 0))

\* The offsets, relative to rowSmearFlags, that a set of memsets writes.
Marks(strides) == UNION {{st[1] + k : k \in 0 .. st[2] - 1} : st \in strides}

\* The flag array after the memsets of a detector call of worker threadNum.
\* An offset that falls outside the whole array shows in memsetLog only.
ApplyMarks(flags, threadNum, strides) ==
    [p \in FlagCells |->
        IF \E o \in Marks(strides) : FlagAddr(threadNum, o) = p THEN 1 ELSE flags[p]]

----------------------------------------------------------------------------
(* The palette as the converters read it.  finalColors32 is the byte view  *)
(* (left32[RI], [GI], [BI] are channels 1, 2, 3 of the tuple; the fourth   *)
(* byte is alpha), finalColors16 the 5-6-5 view, finalColorsXX the one of  *)
(* the build's FRAMEBUFFER_COLOR_DEPTH.                                    *)

Pack565(r, g, b) == (b \div 8) + (g \div 4) * 32 + (r \div 8) * 2048

finalColors32(pal, i) == pal[i]
finalColors16(pal, i) == Pack565(pal[i][1], pal[i][2], pal[i][3])
finalColorsXX(b, pal, i) ==
    IF b.depth = 16 THEN finalColors16(pal, i) ELSE finalColors32(pal, i)

Mix_RoundUp(l, r) == (l + r + 1) \div 2

\* (left32[c] + right32[c]) >> 1
Mix(l, r) == (l + r) \div 2

\* The flagged branch: the pixel written over `old` for indices me and next.
\* The 32-bit build stores bytes RI, GI, BI only; the 16-bit build packs.
Blend(b, pal, me, next, old) ==
    LET left32 == finalColors32(pal, me)
        right32 == finalColors32(pal, next)
        rmix8 == Mix(left32[1], right32[1])
        gmix8 == Mix(left32[2], right32[2])
        bmix8 == Mix(left32[3], right32[3])
    IN  IF b.depth = 16
        THEN Pack565(rmix8, gmix8, bmix8)
        ELSE <<rmix8, gmix8, bmix8, old[4]>>

RowPitch(b) == IF b.vita THEN kFrameTextureWidth ELSE VISIBLE_WIDTH
ColorCells(b) == 0 .. VISIBLE_HEIGHT * RowPitch(b) - 1

ColorAddr_NoFirstRow(b, firstRow, y, x) ==
    IF b.vita
    THEN y * kFrameTextureWidth + x
    ELSE y * VISIBLE_WIDTH + x

\* Where `color` points at column x of the y-th row of the call:
\* color + firstRow * VISIBLE_WIDTH advanced by one per pixel, or on the Vita
\* start + (firstRow + y) * 1024, advanced by one per pixel of the row.
ColorAddr(b, firstRow, y, x) ==
    IF b.vita
    THEN (firstRow + y) * kFrameTextureWidth + x
    ELSE firstRow * VISIBLE_WIDTH + y * VISIBLE_WIDTH + x

\* Where `indexed` points: gIndexedFramebuffer + firstRow * VISIBLE_WIDTH,
\* advanced by one per pixel.
IndexedAddr(firstRow, y, x) == firstRow * VISIBLE_WIDTH + y * VISIBLE_WIDTH + x

\* IndexedFramebufferToColor_NoFilter: the output buffer after the call.
NoFilter(b, pal, fb, buf, firstRow, numRows) ==
    LET writes == {<<ColorAddr(b, firstRow, y, x), IndexedAddr(firstRow, y, x)>> :
                      y \in 0 .. numRows - 1, x \in Cols}
    IN  [p \in DOMAIN buf |->
            IF \E w \in writes : w[1] = p
            THEN finalColorsXX(b, pal, fb[(CHOOSE w \in writes : w[1] = p)[2]])
            ELSE buf[p]]

\* IndexedFramebufferToColor_FilterDithering, one trip of the loop over x
\* (x < VISIBLE_WIDTH-1), or the "last" pixel after it (x = VISIBLE_WIDTH-1).
\* m is [color, flags, flagCells, colorCells]: the two arrays and the cells of
\* each that the call has touched.
ConvertPixel(b, pal, fb, m, threadNum, firstRow, y, x) ==
    LET src == IndexedAddr(firstRow, y, x)
        dst == ColorAddr(b, firstRow, y, x)
        f == FlagAddr(threadNum, x)
    IN  IF x < VISIBLE_WIDTH - 1
        THEN IF m.flags[f] # 0
             THEN [color |-> [m.color EXCEPT ![dst] = Blend(b, pal, fb[src], fb[src + 1], @)],
                   flags |-> [m.flags EXCEPT ![f] = 0],
                   flagCells |-> m.flagCells \cup {f},
                   colorCells |-> m.colorCells \cup {dst}]
             ELSE [color |-> [m.color EXCEPT ![dst] = finalColorsXX(b, pal, fb[src])],
                   flags |-> m.flags,
                   flagCells |-> m.flagCells \cup {f},
                   colorCells |-> m.colorCells \cup {dst}]
        ELSE [m EXCEPT !.color = [m.color EXCEPT ![dst] = finalColorsXX(b, pal, fb[src])],
                       !.colorCells = m.colorCells \cup {dst}]

\* The call FilterDithering_Row(indexed, smearFlags) for the y-th row of the call.
DetectInto(fb, m, threadNum, firstRow, y) ==
    LET strides == FilterDithering_Row(IndexedRow(fb, firstRow + y))
    IN  [m EXCEPT !.flags = ApplyMarks(m.flags, threadNum, strides),
                  !.flagCells = m.flagCells \cup
                                  {FlagAddr(threadNum, o) : o \in Marks(strides)}]

RECURSIVE ConvertRowFrom(_, _, _, _, _, _, _, _)
ConvertRowFrom(b, pal, fb, m, threadNum, firstRow, y, x) ==
    IF x < VISIBLE_WIDTH
    THEN ConvertRowFrom(b, pal, fb, ConvertPixel(b, pal, fb, m, threadNum, firstRow, y, x),
                        threadNum, firstRow, y, x + 1)
    ELSE m

RECURSIVE FilterDitheringFrom(_, _, _, _, _, _, _, _)
\* IndexedFramebufferToColor_FilterDithering: the loop over y, from trip y on.
FilterDitheringFrom(b, pal, fb, m, threadNum, firstRow, numRows, y) ==
    IF y < numRows
    THEN FilterDitheringFrom(b, pal, fb,
             ConvertRowFrom(b, pal, fb, DetectInto(fb, m, threadNum, firstRow, y),
                            threadNum, firstRow, y, 0),
             threadNum, firstRow, numRows, y + 1)
    ELSE m

Machine(buf, flags) == [color |-> buf, flags |-> flags, flagCells |-> {}, colorCells |-> {}]

\* The whole call, by one thread, from the given buffers.
FilterDithering(b, pal, fb, buf, flags, threadNum, firstRow, numRows) ==
    FilterDitheringFrom(b, pal, fb, Machine(buf, flags), threadNum, firstRow, numRows, 0)

----------------------------------------------------------------------------
(* DoublePixels: colorx1 is VISIBLE_WIDTH wide, colorx2 twice as wide.     *)

X2RowStart_NoSkip(firstRow, y) ==
    firstRow * VISIBLE_WIDTH * 2 * 2 + y * VISIBLE_WIDTH * 2

\* x2RowStart in trip y of the loop: colorx2 + firstRow * VISIBLE_WIDTH * 2 * 2,
\* advanced by a doubled row (2 per pixel) and a copied row per earlier trip.
X2RowStart(firstRow, y) ==
    firstRow * VISIBLE_WIDTH * 2 * 2 + y * (VISIBLE_WIDTH * 2 + VISIBLE_WIDTH * 2)

\* One trip of the loop over y: each pixel written twice, then the memcpy of
\* the finished row onto the row below it.
DoubleRow(src, dst, firstRow, y) ==
    LET start == X2RowStart(firstRow, y)
        wide == VISIBLE_WIDTH * 2
        filled == [p \in DOMAIN dst |->
                      IF p \in start .. start + wide - 1
                      THEN src[firstRow * VISIBLE_WIDTH + y * VISIBLE_WIDTH + (p - start) \div 2]
                      ELSE dst[p]]
    IN  [p \in DOMAIN dst |->
            IF p \in start + wide .. start + wide + wide - 1
            THEN filled[p - wide]
            ELSE filled[p]]

RECURSIVE DoublePixelsFrom(_, _, _, _, _)
DoublePixelsFrom(src, dst, firstRow, numRows, y) ==
    IF y < numRows
    THEN DoublePixelsFrom(src, DoubleRow(src, dst, firstRow, y), firstRow, numRows, y + 1)
    ELSE dst

\* DoublePixels(colorx1, colorx2, firstRow, numRows): colorx2 after the call.
DoublePixels(src, dst, firstRow, numRows) == DoublePixelsFrom(src, dst, firstRow, numRows, 0)

----------------------------------------------------------------------------
(* palette.c.  An RGBColor is <<red, green, blue>> with 16-bit channels.   *)

\* U32ToRGBColor and RGBColorToU32 (misc.c): 8-bit channels widened to 16
\* bits and back; the packed colour is opaque.
U32ToRGBColor(c) == <<c[1] * 257, c[2] * 257, c[3] * 257>>
RGBColorToU32(rgb) == <<rgb[1] \div 256, rgb[2] \div 256, rgb[3] \div 256, 255>>

\* InitPaletteStuff: entry i is 0xFF000000 | i in both palettes.
InitPaletteStuff == [i \in 0 .. 255 |-> <<0, 0, i, 255>>]

MakeBackUpPalette_Skipped(game, backup) == backup

\* MakeBackUpPalette: gBackUpPalette after memcpy(gBackUpPalette, gGamePalette).
MakeBackUpPalette(game, backup) == game

\* RestoreBackUpPalette: gGamePalette after memcpy(gGamePalette, gBackUpPalette).
RestoreBackUpPalette(game, backup) == backup

\* (short)((int32_t)channel * brightness / 100), stored in a 16-bit channel.
ScaleChannel(v, brightness) == ((v * brightness) \div 100) % 65536

\* One palette entry at the given brightness.
ScaleEntry(c, brightness) ==
    LET rgbColor == U32ToRGBColor(c)
    IN  RGBColorToU32(<<ScaleChannel(rgbColor[1], brightness),
                        ScaleChannel(rgbColor[2], brightness),
                        ScaleChannel(rgbColor[3], brightness)>>)

\* The inner loop of both fades: entries 0..254 from the backup, scaled.
FadeFrame(game, backup, brightness) ==
    [i \in 0 .. 255 |-> IF i < 255 THEN ScaleEntry(backup[i], brightness) ELSE game[i]]

\* BuildShapePalette: the first colorListSize entries from the shape table's
\* colour list, and the last entry forced to black for a list shorter than 256.
BuildShapePalette(game, colorList) ==
    LET colorListSize == Len(colorList)
    IN  [i \in 0 .. 255 |->
            IF i = 255 /\ colorListSize < 256 THEN RGBColorToU32(<<0, 0, 0>>)
            ELSE IF i < colorListSize THEN RGBColorToU32(colorList[i + 1])
            ELSE game[i]]

\* EraseCLUT: the loop assigns entry 0 on every trip.
EraseCLUT(game) == [game EXCEPT ![0] = RGBColorToU32(<<0, 0, 0>>)]

----------------------------------------------------------------------------
(* Values that stand still in a specification that does not use them.      *)

NoCall == [op |-> "none", threadNum |-> 0, firstRow |-> 0, numRows |-> 0]
NoPalette == [i \in 0 .. 255 |-> <<0, 0, 0, 0>>]
NoImage == <<>>
NoWorkers == [t \in Threads |-> [pc |-> "idle"]]
NoFade == [pc |-> "idle"]
AnyBuild == [vita |-> FALSE, depth |-> 32]
NoRect == [x |-> 0, y |-> 0, w |-> 0, h |-> 0]
NoFrame == [viewportRect |-> NoRect,
            gEffectiveScalingType |-> "kScaling_Unspecified",
            lastFrameScalingType |-> "kScaling_Unspecified",
            framesSinceChange |-> 0, glTexImage |-> [width |-> 0, height |-> 0],
            zvw |-> 0, zvh |-> 0]

\* The presentation driver before GLRender_Init: the initialisers of its
\* globals (GLRender.c:68-70) and of GLRender_PresentFramebuffer's statics.
GLStatics ==
    /\ gGLContext = 0
    /\ gFrameTexture = 0
    /\ gFramePBO = 0
    /\ glTexImage = [width |-> 0, height |-> 0]
    /\ previousViewportRect = NoRect
    /\ previousEffectiveScalingType = "kScaling_Unspecified"
    /\ needClear = SettleFrames
    /\ glCalls = <<>>
    /\ frame = NoFrame
    /\ framesSinceChange = 0

GLIdle ==
    /\ GLStatics
    /\ gEffectiveScalingType = "kScaling_PixelPerfect"
    /\ drawableSize = <<0, 0>>

\* A flag array as the converter leaves it: only a row's last flag, which the
\* converter never reads or clears, may still be set (in no row, or in every one).
FlagsWithLast(v) == [p \in FlagCells |->
                        IF p % VISIBLE_WIDTH = VISIBLE_WIDTH - 1 THEN v ELSE 0]
RestingFlags == {FlagsWithLast(0), FlagsWithLast(1)}

----------------------------------------------------------------------------
(* SpecRow: FilterDithering_Row applied once to one row of a frame.        *)

InitRow ==
    /\ build = AnyBuild
    /\ stage = "start"
    /\ GLIdle
    /\ \E row \in [Cols -> IndexValues] :
          gIndexedFramebuffer = [p \in 0 .. VISIBLE_HEIGHT * VISIBLE_WIDTH - 1 |->
                                    row[p % VISIBLE_WIDTH]]
    /\ gGamePalette = NoPalette
    /\ gRowDitherStrides \in RestingFlags
    /\ memsetLog = {}
    /\ flagsAtEntry = <<>>
    /\ color = NoImage
    /\ colorAtEntry = NoImage
    /\ last = NoCall
    /\ colorx1 = NoImage
    /\ colorx2 = NoImage
    /\ workers = NoWorkers
    /\ gBackUpPalette = NoPalette
    /\ gSceenBlankedFlag = FALSE
    /\ fade = NoFade

\* FilterDithering_Row(gIndexedFramebuffer + y * VISIBLE_WIDTH,
\*                     gRowDitherStrides + threadNum * VISIBLE_WIDTH)
DetectRow(threadNum, y) ==
    /\ stage = "start"
    /\ LET strides == FilterDithering_Row(IndexedRow(gIndexedFramebuffer, y))
       IN  /\ gRowDitherStrides' = ApplyMarks(gRowDitherStrides, threadNum, strides)
           /\ memsetLog' = strides
    /\ flagsAtEntry' = SmearFlags(gRowDitherStrides, threadNum)
    /\ last' = [op |-> "FilterDithering_Row", threadNum |-> threadNum,
                firstRow |-> y, numRows |-> 1]
    /\ stage' = "detected"
    /\ UNCHANGED glVars
    /\ UNCHANGED << build, gIndexedFramebuffer, gGamePalette, color, colorAtEntry, colorx1, colorx2,
                    workers, gBackUpPalette, gSceenBlankedFlag, fade >>

NextRow == \E threadNum \in Threads, y \in RowsOfFrame : DetectRow(threadNum, y)

SpecRow == InitRow /\ [][NextRow]_vars

----------------------------------------------------------------------------
(* Spec: one conversion call on a frame -- IndexedFramebufferToColor_NoFilter *)
(* or IndexedFramebufferToColor_FilterDithering -- for every build, from an *)
(* output buffer that holds whatever was there before.                      *)

\* Index 5 is pure red and index 7 pure blue; the other entries are a ramp.
ScenarioPalette ==
    [i \in 0 .. 255 |->
        IF i = 5 THEN <<255, 0, 0, 255>>
        ELSE IF i = 7 THEN <<0, 0, 255, 255>>
        ELSE <<i, 255 - i, (i * 7) % 256, 255>>]

\* The palette after a fade-out: every entry but the last is black.
FadedPalette ==
    [i \in 0 .. 255 |-> IF i = 255 THEN <<255, 255, 255, 255>> ELSE <<0, 0, 0, 255>>]

\* Rows of a frame: dithered throughout, flat, dithered then flat, and
\* dithered with a change of pair.
FrameRows ==
    { [x \in Cols |-> IF x % 2 = 0 THEN 5 ELSE 7],
      [x \in Cols |-> 5],
      [x \in Cols |-> IF x >= 5 THEN 0 ELSE IF x % 2 = 0 THEN 5 ELSE 7],
      [x \in Cols |-> IF x % 2 = 0 THEN 5 ELSE IF x % 4 = 1 THEN 7 ELSE 0] }

Frames ==
    {[p \in 0 .. VISIBLE_HEIGHT * VISIBLE_WIDTH - 1 |->
         rows[p \div VISIBLE_WIDTH][p % VISIBLE_WIDTH]] : rows \in [RowsOfFrame -> FrameRows]}

Builds == [vita : BOOLEAN, depth : {16, 32}]

\* What a pixel of a buffer nobody has written yet may hold.
StalePixels(b) == IF b.depth = 16 THEN {0, 65535} ELSE {<<0, 0, 0, 0>>, <<17, 34, 51, 68>>}

\* The row ranges a caller may pass: inside the frame, possibly empty.
RowRanges == {r \in (0 .. VISIBLE_HEIGHT) \X (0 .. VISIBLE_HEIGHT) :
                 r[1] + r[2] <= VISIBLE_HEIGHT}

Init ==
    /\ build \in Builds
    /\ stage = "start"
    /\ GLIdle
    /\ gIndexedFramebuffer \in Frames
    /\ gGamePalette \in {ScenarioPalette, FadedPalette}
    /\ gRowDitherStrides \in RestingFlags
    /\ memsetLog = {}
    /\ flagsAtEntry = <<>>
    /\ \E stale \in StalePixels(build) : color = [p \in ColorCells(build) |-> stale]
    /\ colorAtEntry = NoImage
    /\ last = NoCall
    /\ colorx1 = NoImage
    /\ colorx2 = NoImage
    /\ workers = NoWorkers
    /\ gBackUpPalette = NoPalette
    /\ gSceenBlankedFlag = FALSE
    /\ fade = NoFade

CallNoFilter(firstRow, numRows) ==
    /\ stage = "start"
    /\ color' = NoFilter(build, gGamePalette, gIndexedFramebuffer, color, firstRow, numRows)
    /\ colorAtEntry' = color
    /\ last' = [op |-> "NoFilter", threadNum |-> 0, firstRow |-> firstRow, numRows |-> numRows]
    /\ stage' = "converted"
    /\ UNCHANGED glVars
    /\ UNCHANGED << build, gIndexedFramebuffer, gGamePalette, gRowDitherStrides, memsetLog,
                    flagsAtEntry, colorx1, colorx2, workers, gBackUpPalette,
                    gSceenBlankedFlag, fade >>

CallFilterDithering(threadNum, firstRow, numRows) ==
    /\ stage = "start"
    /\ LET m == FilterDithering(build, gGamePalette, gIndexedFramebuffer, color,
                                gRowDitherStrides, threadNum, firstRow, numRows)
       IN  /\ color' = m.color
           /\ gRowDitherStrides' = m.flags
    /\ colorAtEntry' = color
    /\ flagsAtEntry' = gRowDitherStrides
    /\ last' = [op |-> "FilterDithering", threadNum |-> threadNum,
                firstRow |-> firstRow, numRows |-> numRows]
    /\ stage' = "converted"
    /\ UNCHANGED glVars
    /\ UNCHANGED << build, gIndexedFramebuffer, gGamePalette, memsetLog,
                    colorx1, colorx2, workers, gBackUpPalette, gSceenBlankedFlag, fade >>

Next ==
    \/ \E r \in RowRanges : CallNoFilter(r[1], r[2])
    \/ \E threadNum \in Threads, r \in RowRanges : CallFilterDithering(threadNum, r[1], r[2])

Spec == Init /\ [][Next]_vars

----------------------------------------------------------------------------
(* SpecDouble: DoublePixels called on row ranges of a true-colour image    *)
(* (a converted frame), into a destination that holds stale pixels.        *)

\* Frames of flat and of dithered rows.
FramesDouble ==
    {f \in Frames :
        \A y \in RowsOfFrame :
            IndexedRow(f, y) \in { [x \in Cols |-> IF x % 2 = 0 THEN 5 ELSE 7],
                                   [x \in Cols |-> 5] }}

X2Cells == 0 .. (VISIBLE_HEIGHT * 2) * (VISIBLE_WIDTH * 2) - 1

InitDouble ==
    /\ build \in {b \in Builds : ~b.vita}
    /\ stage = "start"
    /\ GLIdle
    /\ gIndexedFramebuffer \in FramesDouble
    /\ gGamePalette \in {ScenarioPalette, FadedPalette}
    /\ gRowDitherStrides = FlagsWithLast(0)
    /\ memsetLog = {}
    /\ flagsAtEntry = <<>>
    /\ color = NoImage
    /\ colorAtEntry = NoImage
    /\ last = NoCall
    /\ colorx1 = NoFilter(build, gGamePalette, gIndexedFramebuffer,
                          [p \in ColorCells(build) |-> 0], 0, VISIBLE_HEIGHT)
    /\ \E stale \in StalePixels(build) : colorx2 = [p \in X2Cells |-> stale]
    /\ workers = NoWorkers
    /\ gBackUpPalette = NoPalette
    /\ gSceenBlankedFlag = FALSE
    /\ fade = NoFade

CallDoublePixels(firstRow, numRows) ==
    /\ colorx2' = DoublePixels(colorx1, colorx2, firstRow, numRows)
    /\ colorAtEntry' = colorx2
    /\ last' = [op |-> "DoublePixels", threadNum |-> 0,
                firstRow |-> firstRow, numRows |-> numRows]
    /\ UNCHANGED glVars
    /\ UNCHANGED << build, stage, gIndexedFramebuffer, gGamePalette, gRowDitherStrides,
                    memsetLog, flagsAtEntry, color, colorx1, workers, gBackUpPalette,
                    gSceenBlankedFlag, fade >>

NextDouble == \E r \in RowRanges : CallDoublePixels(r[1], r[2])

SpecDouble == InitDouble /\ [][NextDouble]_vars

----------------------------------------------------------------------------
(* SpecMT: a frame's rows are split into row ranges, one per worker thread, *)
(* and the workers run IndexedFramebufferToColor_FilterDithering at the     *)
(* same time.  A worker's step is one call of FilterDithering_Row or one    *)
(* pixel of the loop over x; the steps of different workers interleave.     *)

\* Frames with differently dithered rows.
FramesMT ==
    {f \in Frames :
        \A y \in RowsOfFrame :
            IndexedRow(f, y) \in { [x \in Cols |-> IF x % 2 = 0 THEN 5 ELSE 7],
                                   [x \in Cols |-> IF x >= 5 THEN 0
                                                    ELSE IF x % 2 = 0 THEN 5 ELSE 7] }}

RowsOfRange(r) == r[1] .. r[1] + r[2] - 1

\* One row range per worker: disjoint, and together the whole frame.
Partitions ==
    {a \in [Threads -> RowRanges] :
        /\ \A t \in Threads : a[t][2] = 0 => a[t][1] = 0
        /\ \A t, u \in Threads : t # u => RowsOfRange(a[t]) \cap RowsOfRange(a[u]) = {}
        /\ UNION {RowsOfRange(a[t]) : t \in Threads} = RowsOfFrame}

InitMT ==
    /\ build \in {b \in Builds : b.depth = 32}
    /\ stage = "start"
    /\ GLIdle
    /\ gIndexedFramebuffer \in FramesMT
    /\ gGamePalette = ScenarioPalette
    /\ gRowDitherStrides = FlagsWithLast(0)
    /\ memsetLog = {}
    /\ flagsAtEntry = <<>>
    /\ color = [p \in ColorCells(build) |-> <<0, 0, 0, 0>>]
    /\ colorAtEntry = NoImage
    /\ last = NoCall
    /\ colorx1 = NoImage
    /\ colorx2 = NoImage
    /\ workers = NoWorkers
    /\ gBackUpPalette = NoPalette
    /\ gSceenBlankedFlag = FALSE
    /\ fade = NoFade

\* The caller hands each worker its range; threadNum is the worker's own id.
Dispatch(a) ==
    /\ stage = "start"
    /\ stage' = "running"
    /\ workers' = [t \in Threads |->
                      [pc |-> IF a[t][2] > 0 THEN "detect" ELSE "done",
                       firstRow |-> a[t][1], numRows |-> a[t][2], y |-> 0, x |-> 0,
                       flagCells |-> {}, colorCells |-> {}]]
    /\ colorAtEntry' = color
    /\ flagsAtEntry' = gRowDitherStrides
    /\ UNCHANGED glVars
    /\ UNCHANGED << build, gIndexedFramebuffer, gGamePalette, gRowDitherStrides, memsetLog,
                    color, last, colorx1, colorx2, gBackUpPalette, gSceenBlankedFlag, fade >>

MachineOf(t) == [color |-> color, flags |-> gRowDitherStrides,
                 flagCells |-> workers[t].flagCells, colorCells |-> workers[t].colorCells]

WorkerDetect(t) ==
    /\ stage = "running"
    /\ workers[t].pc = "detect"
    /\ LET w == workers[t]
           m == DetectInto(gIndexedFramebuffer, MachineOf(t), t, w.firstRow, w.y)
       IN  /\ gRowDitherStrides' = m.flags
           /\ workers' = [workers EXCEPT ![t] = [w EXCEPT !.pc = "pixel", !.x = 0,
                                                          !.flagCells = m.flagCells]]
    /\ UNCHANGED glVars
    /\ UNCHANGED << build, stage, gIndexedFramebuffer, gGamePalette, memsetLog, flagsAtEntry,
                    color, colorAtEntry, last, colorx1, colorx2, gBackUpPalette,
                    gSceenBlankedFlag, fade >>

WorkerPixel(t) ==
    /\ stage = "running"
    /\ workers[t].pc = "pixel"
    /\ LET w == workers[t]
           m == ConvertPixel(build, gGamePalette, gIndexedFramebuffer, MachineOf(t),
                             t, w.firstRow, w.y, w.x)
           rowDone == w.x = VISIBLE_WIDTH - 1
       IN  /\ color' = m.color
           /\ gRowDitherStrides' = m.flags
           /\ workers' = [workers EXCEPT ![t] =
                  [w EXCEPT !.x = IF rowDone THEN 0 ELSE w.x + 1,
                            !.y = IF rowDone THEN w.y + 1 ELSE w.y,
                            !.pc = IF ~rowDone THEN "pixel"
                                   ELSE IF w.y + 1 < w.numRows THEN "detect" ELSE "done",
                            !.flagCells = m.flagCells,
                            !.colorCells = m.colorCells]]
    /\ UNCHANGED glVars
    /\ UNCHANGED << build, stage, gIndexedFramebuffer, gGamePalette, memsetLog, flagsAtEntry,
                    colorAtEntry, last, colorx1, colorx2, gBackUpPalette,
                    gSceenBlankedFlag, fade >>

\* The caller waits for every worker before it goes on.
Join ==
    /\ stage = "running"
    /\ \A t \in Threads : workers[t].pc = "done"
    /\ stage' = "joined"
    /\ UNCHANGED glVars
    /\ UNCHANGED << build, gIndexedFramebuffer, gGamePalette, gRowDitherStrides, memsetLog,
                    flagsAtEntry, color, colorAtEntry, last, colorx1, colorx2, workers,
                    gBackUpPalette, gSceenBlankedFlag, fade >>

NextMT ==
    \/ \E a \in Partitions : Dispatch(a)
    \/ \E t \in Threads : WorkerDetect(t)
    \/ \E t \in Threads : WorkerPixel(t)
    \/ Join

SpecMT == InitMT /\ [][NextMT]_vars

----------------------------------------------------------------------------
(* SpecFade: the palette manager.  A fade shows one frame per brightness   *)
(* level; fade.atEntry remembers gGamePalette as the fade found it.        *)

\* Colour lists of shape tables: a few entries or a full palette.
ShapeColorLists ==
    {[i \in 1 .. n |-> IF i % 2 = 1 THEN c ELSE <<c[3], c[1], c[2]>>] :
        n \in {3, 256}, c \in {<<4660, 32768, 65535>>}}

InitFade ==
    /\ build = AnyBuild
    /\ stage = "start"
    /\ GLIdle
    /\ gIndexedFramebuffer = NoImage
    /\ gGamePalette = InitPaletteStuff
    /\ gBackUpPalette = InitPaletteStuff
    /\ gSceenBlankedFlag = FALSE
    /\ fade = [pc |-> "idle", brightness |-> 0, atEntry |-> InitPaletteStuff,
               returnedEarly |-> FALSE]
    /\ gRowDitherStrides = FlagsWithLast(0)
    /\ memsetLog = {}
    /\ flagsAtEntry = <<>>
    /\ color = NoImage
    /\ colorAtEntry = NoImage
    /\ last = NoCall
    /\ colorx1 = NoImage
    /\ colorx2 = NoImage
    /\ workers = NoWorkers

FadeUnchanged == << build, stage, gIndexedFramebuffer, gRowDitherStrides, memsetLog,
                    flagsAtEntry, color, colorAtEntry, colorx1, colorx2, workers, glVars >>

PaletteCall(op) == [op |-> op, threadNum |-> 0, firstRow |-> 0, numRows |-> 0]

CallBuildShapePalette(colorList) ==
    /\ fade.pc = "idle"
    /\ gGamePalette' = BuildShapePalette(gGamePalette, colorList)
    /\ last' = PaletteCall("BuildShapePalette")
    /\ UNCHANGED << gBackUpPalette, gSceenBlankedFlag, fade >>
    /\ UNCHANGED FadeUnchanged

CallActivateCLUT ==
    /\ fade.pc = "idle"
    /\ gSceenBlankedFlag' = FALSE
    /\ last' = PaletteCall("ActivateCLUT")
    /\ UNCHANGED << gGamePalette, gBackUpPalette, fade >>
    /\ UNCHANGED FadeUnchanged

CallEraseCLUT ==
    /\ fade.pc = "idle"
    /\ gGamePalette' = EraseCLUT(gGamePalette)
    /\ gSceenBlankedFlag' = TRUE
    /\ last' = PaletteCall("EraseCLUT")
    /\ UNCHANGED << gBackUpPalette, fade >>
    /\ UNCHANGED FadeUnchanged

\* FadeInGameCLUT up to its loop.
FadeInBegin ==
    /\ fade.pc = "idle"
    /\ gBackUpPalette' = MakeBackUpPalette(gGamePalette, gBackUpPalette)
    /\ fade' = [pc |-> "in", brightness |-> 4, atEntry |-> gGamePalette,
                returnedEarly |-> FALSE]
    /\ last' = PaletteCall("FadeInGameCLUT")
    /\ UNCHANGED << gGamePalette, gSceenBlankedFlag >>
    /\ UNCHANGED FadeUnchanged

\* One trip of for (brightness = 4; brightness <= 100; brightness += 8).
FadeInStep ==
    /\ fade.pc = "in"
    /\ fade.brightness <= 100
    /\ gGamePalette' = FadeFrame(gGamePalette, gBackUpPalette, fade.brightness)
    /\ fade' = [fade EXCEPT !.brightness = @ + 8]
    /\ UNCHANGED << gBackUpPalette, gSceenBlankedFlag, last >>
    /\ UNCHANGED FadeUnchanged

\* After the loop: "set to original palette to be sure".
FadeInEnd ==
    /\ fade.pc = "in"
    /\ fade.brightness > 100
    /\ gGamePalette' = RestoreBackUpPalette(gGamePalette, gBackUpPalette)
    /\ gSceenBlankedFlag' = FALSE
    /\ fade' = [fade EXCEPT !.pc = "idle"]
    /\ UNCHANGED << gBackUpPalette, last >>
    /\ UNCHANGED FadeUnchanged

\* FadeOutGameCLUT when the screen is already blanked: it returns at once.
FadeOutAlreadyOut ==
    /\ fade.pc = "idle"
    /\ gSceenBlankedFlag
    /\ fade' = [fade EXCEPT !.atEntry = gGamePalette, !.returnedEarly = TRUE]
    /\ last' = PaletteCall("FadeOutGameCLUT")
    /\ UNCHANGED << gGamePalette, gBackUpPalette, gSceenBlankedFlag >>
    /\ UNCHANGED FadeUnchanged

FadeOutBegin ==
    /\ fade.pc = "idle"
    /\ ~gSceenBlankedFlag
    /\ gBackUpPalette' = MakeBackUpPalette(gGamePalette, gBackUpPalette)
    /\ fade' = [pc |-> "out", brightness |-> 96, atEntry |-> gGamePalette,
                returnedEarly |-> FALSE]
    /\ last' = PaletteCall("FadeOutGameCLUT")
    /\ UNCHANGED << gGamePalette, gSceenBlankedFlag >>
    /\ UNCHANGED FadeUnchanged

\* One trip of for (brightness = 96; brightness >= 0; brightness -= 8).
FadeOutStep ==
    /\ fade.pc = "out"
    /\ fade.brightness >= 0
    /\ gGamePalette' = FadeFrame(gGamePalette, gBackUpPalette, fade.brightness)
    /\ fade' = [fade EXCEPT !.brightness = @ - 8]
    /\ UNCHANGED << gBackUpPalette, gSceenBlankedFlag, last >>
    /\ UNCHANGED FadeUnchanged

FadeOutEnd ==
    /\ fade.pc = "out"
    /\ fade.brightness < 0
    /\ gSceenBlankedFlag' = TRUE
    /\ fade' = [fade EXCEPT !.pc = "idle"]
    /\ UNCHANGED << gGamePalette, gBackUpPalette, last >>
    /\ UNCHANGED FadeUnchanged

NextFade ==
    \/ \E colorList \in ShapeColorLists : CallBuildShapePalette(colorList)
    \/ CallActivateCLUT
    \/ CallEraseCLUT
    \/ FadeInBegin
    \/ FadeInStep
    \/ FadeInEnd
    \/ FadeOutAlreadyOut
    \/ FadeOutBegin
    \/ FadeOutStep
    \/ FadeOutEnd

SpecFade == InitFade /\ [][NextFade]_vars

----------------------------------------------------------------------------
(* GLRender.c: the presentation driver.                                    *)

kFrameTextureHeight == VISIBLE_HEIGHT + 1

ScalingTypes == {"kScaling_PixelPerfect", "kScaling_Stretch", "kScaling_HQStretch"}

\* C's integer division, which truncates toward zero (b > 0).
TruncDiv(a, b) == IF a >= 0 THEN a \div b ELSE -((-a) \div b)

\* FitRectKeepAR: the aspect ratios are floats; with dh = 0 displayAR is
\* +infinity (dw > 0) or NaN (dw = 0), and NaN >= x is false.  The products
\* are truncated to int.
FitRectKeepAR(logicalWidth, logicalHeight, displayWidth, displayHeight) ==
    LET displayARGreater ==
            IF displayHeight = 0 THEN displayWidth > 0
            ELSE displayWidth * logicalHeight >= logicalWidth * displayHeight
    IN  IF displayARGreater
        THEN <<(displayHeight * logicalWidth) \div logicalHeight, displayHeight>>
        ELSE <<displayWidth, (displayWidth * logicalHeight) \div logicalWidth>>

\* GetMaxIntegerZoom: the largest integer zoom that fits the drawable, at least 1.
GetMaxIntegerZoom(displayWidth, displayHeight) ==
    LET maxZoomX == displayWidth \div VISIBLE_WIDTH
        maxZoomY == displayHeight \div VISIBLE_HEIGHT
        maxZoom == IF maxZoomX < maxZoomY THEN maxZoomX ELSE maxZoomY
    IN  IF maxZoom <= 0 THEN 1 ELSE maxZoom

GetViewportSize(scalingType, size) ==
    LET vw == VISIBLE_WIDTH
        vh == VISIBLE_HEIGHT
        dw == size[1]
        dh == size[2]
        sz == IF scalingType = "kScaling_PixelPerfect"
              THEN LET zoom == GetMaxIntegerZoom(dw, dh) IN <<zoom * vw, zoom * vh>>
              ELSE FitRectKeepAR(vw, vh, dw, dh)
    IN  [x |-> TruncDiv(dw - sz[1], 2), y |-> TruncDiv(dh - sz[2], 2),
         w |-> sz[1], h |-> sz[2]]

\* The texture and buffer objects with the calls made on them so far:
\* g is [gFrameTexture, gFramePBO, glTexImage, calls].
InitTextureAndPBO(g, pixelZoom) ==
    [gFrameTexture |-> 1,
     gFramePBO |-> 1,
     glTexImage |-> [width |-> kFrameTextureWidth * pixelZoom,
                     height |-> kFrameTextureHeight * pixelZoom],
     calls |-> g.calls \o <<"glGenTextures", "glGenBuffersARB", "glBindTexture", "glTexImage2D">>]

DeleteTextureAndPBO(g) ==
    LET t == IF g.gFrameTexture # 0
             THEN [g EXCEPT !.gFrameTexture = 0,
                            !.glTexImage = [width |-> 0, height |-> 0],
                            !.calls = @ \o <<"glDeleteTextures">>]
             ELSE g
    IN  IF t.gFramePBO # 0
        THEN [t EXCEPT !.gFramePBO = 0, !.calls = @ \o <<"glDeleteBuffersARB">>]
        ELSE t

GLObjects(calls) == [gFrameTexture |-> gFrameTexture, gFramePBO |-> gFramePBO,
                     glTexImage |-> glTexImage, calls |-> calls]

\* needClear after "Update dimensions".
NeedClearAfterViewport_NoReset(changed, nc) == nc
NeedClearAfterViewport(changed, nc) == IF changed THEN SettleFrames ELSE nc

\* wasHQ ^ isHQ
ModeToggled_OnlyIntoHQ(wasHQ, isHQ) == isHQ /\ ~wasHQ
ModeToggled(wasHQ, isHQ) == wasHQ # isHQ

Min(a, b) == IF a < b THEN a ELSE b

GLDrivers == {b \in Builds : b.depth = 16}

\* Drawable sizes: a minimised window, one that both policies fill alike,
\* and a wider one that they fill differently.
DrawableSizes ==
    { <<0, 0>>,
      <<2 * VISIBLE_WIDTH, 2 * VISIBLE_HEIGHT>>,
      <<3 * VISIBLE_WIDTH + 2, 3 * VISIBLE_HEIGHT - 1>> }

InitGL ==
    /\ build \in GLDrivers
    /\ stage = "start"
    /\ GLStatics
    /\ gEffectiveScalingType \in ScalingTypes
    /\ drawableSize \in DrawableSizes
    /\ gIndexedFramebuffer = NoImage
    /\ gGamePalette = NoPalette
    /\ gRowDitherStrides = FlagsWithLast(0)
    /\ memsetLog = {}
    /\ flagsAtEntry = <<>>
    /\ color = NoImage
    /\ colorAtEntry = NoImage
    /\ last = NoCall
    /\ colorx1 = NoImage
    /\ colorx2 = NoImage
    /\ workers = NoWorkers
    /\ gBackUpPalette = NoPalette
    /\ gSceenBlankedFlag = FALSE
    /\ fade = NoFade

GLUnchanged == << build, gIndexedFramebuffer, gGamePalette, gRowDitherStrides, memsetLog,
                  flagsAtEntry, color, colorAtEntry, colorx1, colorx2, workers,
                  gBackUpPalette, gSceenBlankedFlag, fade >>

GLCall(op) == [op |-> op, threadNum |-> 0, firstRow |-> 0, numRows |-> 0]

GLRender_Init ==
    /\ stage = "start"
    /\ stage' = "running"
    /\ gGLContext' = 1
    /\ LET g == InitTextureAndPBO(
                    GLObjects(<<"SDL_GL_CreateContext", "SDL_GL_MakeCurrent", "glClear">>), 1)
       IN  /\ gFrameTexture' = g.gFrameTexture
           /\ gFramePBO' = g.gFramePBO
           /\ glTexImage' = g.glTexImage
           /\ glCalls' = g.calls
    /\ last' = GLCall("GLRender_Init")
    /\ UNCHANGED << gEffectiveScalingType, drawableSize, previousViewportRect,
                    previousEffectiveScalingType, needClear, frame, framesSinceChange >>
    /\ UNCHANGED GLUnchanged

\* The settings change the scaling mode between two frames.
SetScalingType(scalingType) ==
    /\ stage = "running"
    /\ scalingType # gEffectiveScalingType
    /\ gEffectiveScalingType' = scalingType
    /\ UNCHANGED << stage, last, drawableSize, gGLContext, gFrameTexture, gFramePBO, glTexImage,
                    previousViewportRect, previousEffectiveScalingType, needClear, glCalls,
                    frame, framesSinceChange >>
    /\ UNCHANGED GLUnchanged

\* The window is resized between two frames.
ResizeWindow(size) ==
    /\ stage = "running"
    /\ size # drawableSize
    /\ drawableSize' = size
    /\ UNCHANGED << stage, last, gEffectiveScalingType, gGLContext, gFrameTexture, gFramePBO,
                    glTexImage, previousViewportRect, previousEffectiveScalingType, needClear,
                    glCalls, frame, framesSinceChange >>
    /\ UNCHANGED GLUnchanged

GLRender_PresentFramebuffer ==
    /\ stage = "running"
    /\ LET vw == VISIBLE_WIDTH
           vh == VISIBLE_HEIGHT
           viewportRect == GetViewportSize(gEffectiveScalingType, drawableSize)
           changed == viewportRect # previousViewportRect
           nc == NeedClearAfterViewport(changed, needClear)
           isHQ == gEffectiveScalingType = "kScaling_HQStretch"
           wasHQ == previousEffectiveScalingType = "kScaling_HQStretch"
           g0 == GLObjects(<<"SDL_GL_MakeCurrent">> \o
                           (IF changed THEN <<"glViewport">> ELSE <<>>))
           g == IF ModeToggled(wasHQ, isHQ)
                THEN InitTextureAndPBO(DeleteTextureAndPBO(g0), IF isHQ THEN 2 ELSE 1)
                ELSE g0
           zvw == (IF isHQ THEN 2 ELSE 1) * vw
           zvh == (IF isHQ THEN 2 ELSE 1) * vh
           updatePBO == IF build.vita THEN <<>>
                        ELSE <<"glBindBufferARB", "glBufferDataARB", "glMapBufferARB",
                               "ConvertFramebufferMT", "glUnmapBufferARB">>
           clear == IF nc > 0 THEN <<"glClear">> ELSE <<>>
           draw == <<"glBindTexture">> \o
                   (IF build.vita THEN <<"ConvertFramebufferMT">> ELSE <<"glTexSubImage2D">>) \o
                   <<"glBegin", "SDL_GL_SwapWindow">>
       IN  /\ previousViewportRect' = viewportRect
           /\ previousEffectiveScalingType' = gEffectiveScalingType
           /\ needClear' = IF nc > 0 THEN nc - 1 ELSE nc
           /\ gFrameTexture' = g.gFrameTexture
           /\ gFramePBO' = g.gFramePBO
           /\ glTexImage' = g.glTexImage
           /\ glCalls' = g.calls \o updatePBO \o clear \o draw
           /\ framesSinceChange' =
                  IF framesSinceChange = 0 \/ viewportRect # frame.viewportRect THEN 1
                  ELSE Min(framesSinceChange + 1, SettleFrames + 1)
           /\ frame' = [viewportRect |-> viewportRect,
                        gEffectiveScalingType |-> gEffectiveScalingType,
                        lastFrameScalingType |-> frame.gEffectiveScalingType,
                        framesSinceChange |-> framesSinceChange,
                        glTexImage |-> g.glTexImage,
                        zvw |-> zvw, zvh |-> zvh]
    /\ last' = GLCall("GLRender_PresentFramebuffer")
    /\ UNCHANGED << stage, gEffectiveScalingType, drawableSize, gGLContext >>
    /\ UNCHANGED GLUnchanged

GLRender_Shutdown ==
    /\ stage = "running"
    /\ stage' = "shutdown"
    /\ LET g == DeleteTextureAndPBO(GLObjects(<<"ShutdownRenderThreads">>))
       IN  /\ gFrameTexture' = g.gFrameTexture
           /\ gFramePBO' = g.gFramePBO
           /\ glTexImage' = g.glTexImage
           /\ glCalls' = g.calls \o
                         (IF gGLContext # 0 THEN <<"SDL_GL_DeleteContext">> ELSE <<>>)
    /\ gGLContext' = 0
    /\ last' = GLCall("GLRender_Shutdown")
    /\ UNCHANGED << gEffectiveScalingType, drawableSize, previousViewportRect,
                    previousEffectiveScalingType, needClear, frame, framesSinceChange >>
    /\ UNCHANGED GLUnchanged

NextGL ==
    \/ GLRender_Init
    \/ \E scalingType \in ScalingTypes : SetScalingType(scalingType)
    \/ \E size \in DrawableSizes : ResizeWindow(size)
    \/ GLRender_PresentFramebuffer
    \/ GLRender_Shutdown

SpecGL == InitGL /\ [][NextGL]_vars

----------------------------------------------------------------------------
(* Properties of FilterDithering_Row, read in the state after DetectRow.   *)

Detected == stage = "detected"
RowSeen == IndexedRow(gIndexedFramebuffer, last.firstRow)
FlagsNow == SmearFlags(gRowDitherStrides, last.threadNum)
CleanStart == \A x \in Cols : flagsAtEntry[x] = 0

\* Pixels p..q strictly alternate between two different values.
IsAlternating(row, p, q) ==
    /\ p < q
    /\ row[p] # row[p + 1]
    /\ \A i \in p .. q - 2 : row[i + 2] = row[i]

\* ... and the alternation cannot be extended on either side.
IsMaximalAlternating(row, p, q) ==
    /\ IsAlternating(row, p, q)
    /\ p = 0 \/ row[p - 1] # row[p + 1]
    /\ q = VISIBLE_WIDTH - 1 \/ row[q + 1] # row[q - 1]

LongPatterns(row) ==
    {pq \in Cols \X Cols : pq[2] - pq[1] + 1 >= 5 /\ IsMaximalAlternating(row, pq[1], pq[2])}

\* The pixel after the pattern is the row's last one, or repeats in the one after it.
FlatAfter(row, q) ==
    /\ q + 1 \in Cols
    /\ q + 1 = VISIBLE_WIDTH - 1 \/ row[q + 2] = row[q + 1]

FlatRuns(row) ==
    \A x \in Cols : \/ (x > 0 /\ row[x - 1] = row[x])
                     \/ (x < VISIBLE_WIDTH - 1 /\ row[x + 1] = row[x])

\* C2: from an all-clear flag row, a row of flat runs of two or more equal
\* pixels (all identical, or with A,A,B,B transitions) leaves every flag clear.
C2_FlatRunsStayClear ==
    (Detected /\ CleanStart /\ FlatRuns(RowSeen)) =>
        /\ memsetLog = {}
        /\ \A x \in Cols : FlagsNow[x] = 0

C2_Witness ==
    /\ Detected
    /\ CleanStart
    /\ FlatRuns(RowSeen)
    /\ \E x \in 0 .. VISIBLE_WIDTH - 4 :
          /\ RowSeen[x] = RowSeen[x + 1]
          /\ RowSeen[x + 1] # RowSeen[x + 2]
          /\ RowSeen[x + 2] = RowSeen[x + 3]
    /\ \A x \in Cols : FlagsNow[x] = 0

StrideCols(st) == st[1] .. st[1] + st[2] - 1

\* C3 as stated: the pixels of a committed stride strictly alternate between
\* exactly two indices, so no stride spans three or more distinct indices.
C3_StrideHasTwoIndices ==
    Detected =>
        \A st \in memsetLog :
            /\ StrideCols(st) \subseteq Cols
            /\ IsAlternating(RowSeen, st[1], st[1] + st[2] - 1)
            /\ Cardinality({RowSeen[i] : i \in StrideCols(st)}) = 2

\* Pixel i sits between two equal pixels that differ from it: X,Y,X.
IsDitherMiddle(row, i) ==
    /\ i - 1 \in Cols
    /\ i + 1 \in Cols
    /\ row[i - 1] = row[i + 1]
    /\ row[i] # row[i + 1]

\* C3 amended: every flagged position lies in a committed stride of at least
\* four consecutive pixels in which no pixel equals its neighbour and every
\* interior pixel is the middle of an X,Y,X triple or lies between two such
\* middles; the pair of indices may change along the stride.
C3_StrideIsChainOfTriples ==
    Detected =>
        /\ \A x \in Cols : (FlagsNow[x] = 1 /\ flagsAtEntry[x] = 0) => x \in Marks(memsetLog)
        /\ \A st \in memsetLog :
             LET s == st[1]
                 e == st[1] + st[2] - 1
             IN  /\ st[2] >= 4
                 /\ StrideCols(st) \subseteq Cols
                 /\ \A i \in s .. e - 1 : RowSeen[i] # RowSeen[i + 1]
                 /\ IsDitherMiddle(RowSeen, s + 1)
                 /\ IsDitherMiddle(RowSeen, e - 1)
                 /\ \A i \in s + 1 .. e - 1 :
                        \/ IsDitherMiddle(RowSeen, i)
                        \/ (IsDitherMiddle(RowSeen, i - 1) /\ IsDitherMiddle(RowSeen, i + 1))

\* A stride that changes its pair of indices on the way: three distinct indices.
C3_Witness ==
    /\ Detected
    /\ \E st \in memsetLog :
          /\ Cardinality({RowSeen[i] : i \in StrideCols(st)}) = 3
          /\ \A i \in StrideCols(st) : FlagsNow[i] = 1

EntirelyAlternating(row) == IsAlternating(row, 0, VISIBLE_WIDTH - 1)

\* C4: every memset of the detector stays inside positions 0..W-1 of the
\* worker's own flag row (start >= 0, start + count <= W), the other workers'
\* flag rows are left alone, and an entirely alternating row gets exactly the
\* positions 0..W-1 flagged.
C4_WritesInsideRow ==
    Detected =>
        /\ \A st \in memsetLog : st[1] >= 0 /\ st[1] + st[2] <= VISIBLE_WIDTH
        /\ \A x \in Cols : FlagsNow[x] = (IF x \in Marks(memsetLog) THEN 1 ELSE flagsAtEntry[x])
        /\ \A t \in Threads \ {last.threadNum} :
              SmearFlags(gRowDitherStrides, t) \in
                  {SmearFlags(FlagsWithLast(0), t), SmearFlags(FlagsWithLast(1), t)}
        /\ EntirelyAlternating(RowSeen) =>
              /\ memsetLog = {<<0, VISIBLE_WIDTH>>}
              /\ \A x \in Cols : FlagsNow[x] = 1

C4_Witness ==
    /\ Detected
    /\ CleanStart
    /\ EntirelyAlternating(RowSeen)
    /\ Marks(memsetLog) = Cols
    /\ \A x \in Cols : FlagsNow[x] = 1

----------------------------------------------------------------------------
(* Properties of the two converters, read in the state after the call.     *)

Converted == stage = "converted"
CalledRows == last.firstRow .. last.firstRow + last.numRows - 1
OutAt(y, x) == color[y * RowPitch(build) + x]
IdxAt(y, x) == gIndexedFramebuffer[y * VISIBLE_WIDTH + x]
PaletteXX(i) == finalColorsXX(build, gGamePalette, i)
PaletteIsDistinct == Cardinality({PaletteXX(i) : i \in 0 .. 255}) = 256

\* The cells of the output buffer that hold the pixels of the called rows.
CalledCells == {y * RowPitch(build) + x : y \in CalledRows, x \in Cols}

\* C5: NoFilter writes palette[indexed[y][x]] at output position (y, x) for
\* every row of the range and every column, and nothing else; when the palette
\* entries are pairwise distinct the output gives back the index at each position.
C5_NoFilterIsLookup ==
    (Converted /\ last.op = "NoFilter") =>
        /\ \A y \in CalledRows, x \in Cols : OutAt(y, x) = PaletteXX(IdxAt(y, x))
        /\ \A p \in ColorCells(build) \ CalledCells : color[p] = colorAtEntry[p]
        /\ PaletteIsDistinct =>
              \A y \in CalledRows, x \in Cols :
                  \A i \in 0 .. 255 : PaletteXX(i) = OutAt(y, x) => i = IdxAt(y, x)

C5_Witness ==
    /\ Converted
    /\ last.op = "NoFilter"
    /\ last.firstRow > 0
    /\ last.numRows > 0
    /\ PaletteIsDistinct
    /\ \E x \in Cols : IdxAt(last.firstRow, x) # IdxAt(0, x)
    /\ \A x \in Cols : OutAt(last.firstRow, x) = PaletteXX(IdxAt(last.firstRow, x))
    /\ \A x \in Cols : OutAt(0, x) = colorAtEntry[x]

\* Position x of frame row y carried a set flag when the converter read it:
\* the flags 0..W-2 are clear when a row begins, so these are the detector's.
FlaggedAt(y, x) ==
    /\ x < VISIBLE_WIDTH - 1
    /\ x \in Marks(FilterDithering_Row(IndexedRow(gIndexedFramebuffer, y)))

\* floor((c1 + c2) / 2) for channel c of the pixel's and its right neighbour's colour.
FloorAvg(y, x, c) ==
    (gGamePalette[IdxAt(y, x)][c] + gGamePalette[IdxAt(y, x + 1)][c]) \div 2

\* The red, green and blue channel values stored in an output pixel.
Channels(px) ==
    IF build.depth = 16
    THEN <<px \div 2048, (px \div 32) % 64, px % 32>>
    ELSE <<px[1], px[2], px[3]>>

\* C6 as stated: at a flagged position x < W-1 the output pixel's red, green
\* and blue channel values are floor((r1+r2)/2), floor((g1+g2)/2),
\* floor((b1+b2)/2); every other position gets the palette colour of its index.
C6_ChannelsAreFloorAverages ==
    (Converted /\ last.op = "FilterDithering") =>
        \A y \in CalledRows, x \in Cols :
            IF FlaggedAt(y, x)
            THEN Channels(OutAt(y, x)) =
                    <<FloorAvg(y, x, 1), FloorAvg(y, x, 2), FloorAvg(y, x, 3)>>
            ELSE OutAt(y, x) = PaletteXX(IdxAt(y, x))

\* C6 amended: that holds for the 32-bit output format; in the 16-bit format
\* the pixel is the 5-6-5 packing of the three floor averages, so its fields
\* hold the averages shifted right by 3, 2 and 3 bits.
C6_ChannelsAreFloorAveragesPerDepth ==
    (Converted /\ last.op = "FilterDithering") =>
        \A y \in CalledRows, x \in Cols :
            IF FlaggedAt(y, x)
            THEN Channels(OutAt(y, x)) =
                    IF build.depth = 16
                    THEN <<FloorAvg(y, x, 1) \div 8, FloorAvg(y, x, 2) \div 4,
                           FloorAvg(y, x, 3) \div 8>>
                    ELSE <<FloorAvg(y, x, 1), FloorAvg(y, x, 2), FloorAvg(y, x, 3)>>
            ELSE OutAt(y, x) = PaletteXX(IdxAt(y, x))

\* Red blended with blue in both formats, next to a direct last pixel.
C6_Witness ==
    /\ Converted
    /\ last.op = "FilterDithering"
    /\ gGamePalette = ScenarioPalette
    /\ build.depth = 16
    /\ \E y \in CalledRows :
          /\ FlaggedAt(y, 0)
          /\ IdxAt(y, 0) = 5
          /\ IdxAt(y, 1) = 7
          /\ Channels(OutAt(y, 0)) = <<15, 0, 15>>
          /\ VISIBLE_WIDTH - 1 \in Marks(FilterDithering_Row(IndexedRow(gIndexedFramebuffer, y)))
          /\ OutAt(y, VISIBLE_WIDTH - 1) = PaletteXX(IdxAt(y, VISIBLE_WIDTH - 1))

\* C7: in the 32-bit format, with index 5 = (255,0,0,255) and index 7 =
\* (0,0,255,255), a flagged pixel of index 5 followed by index 7 comes out as
\* (127,0,127,255), alpha included, whatever the buffer held before.
C7_BlendHasFullAlpha ==
    (Converted /\ last.op = "FilterDithering" /\ build.depth = 32
       /\ gGamePalette = ScenarioPalette) =>
        \A y \in CalledRows, x \in Cols :
            (FlaggedAt(y, x) /\ IdxAt(y, x) = 5 /\ IdxAt(y, x + 1) = 7) =>
                OutAt(y, x) = <<127, 0, 127, 255>>

----------------------------------------------------------------------------
(* Properties of DoublePixels, read in the state after the call.           *)

Doubled == last.op = "DoublePixels"
SrcAt(y, x) == colorx1[y * VISIBLE_WIDTH + x]
DstAt(r, c) == colorx2[r * (VISIBLE_WIDTH * 2) + c]
SourceIsUniform == \A p \in DOMAIN colorx1 : colorx1[p] = colorx1[0]

\* C8: each source pixel (y, x) of the range is written to destination positions
\* (2y, 2x), (2y, 2x+1), (2y+1, 2x), (2y+1, 2x+1); no destination row outside
\* [2*firstRow, 2*(firstRow+numRows)) is touched; a uniform source doubled in
\* full gives a uniform destination of four times the pixel count.
C8_DoublePixelsReplicates ==
    Doubled =>
        /\ \A y \in CalledRows, x \in Cols :
              /\ DstAt(2 * y, 2 * x) = SrcAt(y, x)
              /\ DstAt(2 * y, 2 * x + 1) = SrcAt(y, x)
              /\ DstAt(2 * y + 1, 2 * x) = SrcAt(y, x)
              /\ DstAt(2 * y + 1, 2 * x + 1) = SrcAt(y, x)
        /\ \A r \in 0 .. VISIBLE_HEIGHT * 2 - 1, c \in 0 .. VISIBLE_WIDTH * 2 - 1 :
              (r < 2 * last.firstRow \/ r >= 2 * (last.firstRow + last.numRows)) =>
                  DstAt(r, c) = colorAtEntry[r * (VISIBLE_WIDTH * 2) + c]
        /\ (SourceIsUniform /\ last.numRows = VISIBLE_HEIGHT) =>
              /\ \A p \in DOMAIN colorx2 : colorx2[p] = colorx1[0]
              /\ Cardinality(DOMAIN colorx2) = 4 * Cardinality(DOMAIN colorx1)

\* The last rows of a non-uniform image doubled, the rows above left stale.
C8_Witness ==
    /\ Doubled
    /\ last.firstRow > 0
    /\ last.numRows > 0
    /\ ~SourceIsUniform
    /\ SrcAt(last.firstRow, 0) # SrcAt(last.firstRow, 1)
    /\ DstAt(2 * last.firstRow + 1, 3) = SrcAt(last.firstRow, 1)
    /\ DstAt(2 * last.firstRow + 1, 1) = SrcAt(last.firstRow, 0)
    /\ \A c \in 0 .. VISIBLE_WIDTH * 2 - 1 : DstAt(0, c) \in StalePixels(build)

----------------------------------------------------------------------------
(* Properties of the concurrent conversion.                                *)

\* What one worker converting rows 0..VISIBLE_HEIGHT-1 in order produces.
SequentialOutput ==
    FilterDithering(build, gGamePalette, gIndexedFramebuffer, colorAtEntry, flagsAtEntry,
                    0, 0, VISIBLE_HEIGHT).color

\* C9: for every partition of the rows among workers with distinct ids and
\* every interleaving of their steps, the joined output equals the output of
\* one sequential worker, and each worker touches only its own flag row and
\* the output rows of its own range.
C9_WorkersAreIndependent ==
    /\ stage = "joined" => color = SequentialOutput
    /\ stage \in {"running", "joined"} =>
          \A t \in Threads :
              /\ workers[t].flagCells \subseteq
                    {t * VISIBLE_WIDTH + x : x \in Cols}
              /\ workers[t].colorCells \subseteq
                    {y * RowPitch(build) + x :
                        y \in workers[t].firstRow .. workers[t].firstRow + workers[t].numRows - 1,
                        x \in Cols}

\* Two workers, each with rows of its own, have finished; blended pixels included.
C9_Witness ==
    /\ stage = "joined"
    /\ \E t, u \in Threads :
          /\ t # u
          /\ workers[t].numRows > 0
          /\ workers[u].numRows > 0
          /\ workers[t].flagCells # {}
          /\ workers[u].flagCells # {}
          /\ IndexedRow(gIndexedFramebuffer, workers[t].firstRow)
                # IndexedRow(gIndexedFramebuffer, workers[u].firstRow)
    /\ color = SequentialOutput
    /\ \E p \in DOMAIN color : color[p] = <<127, 0, 127, 0>>

----------------------------------------------------------------------------
(* Properties of the fades, read once the fade has returned.               *)

FadeDone(op) == fade.pc = "idle" /\ last.op = op

\* C10 as stated: after FadeInGameCLUT or FadeOutGameCLUT completes, all 256
\* entries of gGamePalette equal the values they had just before the fade.
C10_PaletteRestoredAfterFade ==
    (FadeDone("FadeInGameCLUT") \/ FadeDone("FadeOutGameCLUT")) =>
        gGamePalette = fade.atEntry

\* C10 amended: FadeInGameCLUT restores the palette from the backup snapshot,
\* so all 256 entries are as before the fade.  FadeOutGameCLUT does not: when
\* it has run, entries 0..254 hold the snapshot at brightness 0, entry 255 is
\* untouched, the screen is marked blanked, and only gBackUpPalette holds the
\* values from before the fade; on an already blanked screen it changes nothing.
C10_FadeInRestoresFadeOutBlanks ==
    /\ FadeDone("FadeInGameCLUT") =>
          /\ gGamePalette = fade.atEntry
          /\ gGamePalette = gBackUpPalette
          /\ ~gSceenBlankedFlag
    /\ FadeDone("FadeOutGameCLUT") =>
          /\ gSceenBlankedFlag
          /\ IF fade.returnedEarly
             THEN gGamePalette = fade.atEntry
             ELSE /\ gBackUpPalette = fade.atEntry
                  /\ gGamePalette[255] = fade.atEntry[255]
                  /\ \A i \in 0 .. 254 : gGamePalette[i] = ScaleEntry(fade.atEntry[i], 0)

\* A fade-in of a freshly built palette has given the palette back.
C10_Witness ==
    /\ FadeDone("FadeInGameCLUT")
    /\ gGamePalette = fade.atEntry
    /\ gGamePalette # InitPaletteStuff
    /\ \E i \in 0 .. 254 : gGamePalette[i] # ScaleEntry(gGamePalette[i], 0)

----------------------------------------------------------------------------
(* The scratch flags after a conversion call.                              *)

\* The flag row of the calling worker, before and after the call.
WorkerFlagsAtEntry == [x \in Cols |-> flagsAtEntry[FlagAddr(last.threadNum, x)]]
FilterDitheringDone == Converted /\ last.op = "FilterDithering" /\ last.numRows > 0

\* C11: starting from an all-clear flag buffer, when
\* IndexedFramebufferToColor_FilterDithering has finished its rows and
\* returned, every one of the VISIBLE_WIDTH flags of that worker is 0 again,
\* whatever the rows held.
C11_FlagsCleanAfterCall ==
    (FilterDitheringDone /\ \A x \in Cols : WorkerFlagsAtEntry[x] = 0) =>
        \A x \in Cols : FlagsNow[x] = 0

----------------------------------------------------------------------------
(* Properties of the presentation driver, read after a GLRender_* call.    *)

Presented == last.op = "GLRender_PresentFramebuffer"
Called(name) == \E i \in DOMAIN glCalls : glCalls[i] = name
CallIndex(name) == CHOOSE i \in DOMAIN glCalls : glCalls[i] = name
CallCount(name) == Cardinality({i \in DOMAIN glCalls : glCalls[i] = name})

\* C12: over any sequence of GLRender_PresentFramebuffer calls with arbitrary
\* drawable sizes and scaling modes, a frame clears the draw target if and
\* only if it is one of the SettleFrames (60) frames beginning with a frame
\* whose viewport rectangle differs from the previous frame's, the first
\* frame counting as a change; after 60 frames without a change no frame
\* clears until the next change.
C12_ClearsOnlyWhileSettling ==
    Presented =>
        /\ Called("glClear") <=> framesSinceChange <= SettleFrames
        /\ CallCount("glClear") <= 1
        /\ needClear = SettleFrames - Min(framesSinceChange, SettleFrames)

\* After more than 60 quiet frames, which no longer cleared, the viewport
\* changed and this frame cleared again.
C12_Witness ==
    /\ Presented
    /\ frame.framesSinceChange = SettleFrames + 1
    /\ framesSinceChange = 1
    /\ Called("glClear")

IsHQ(scalingType) == scalingType = "kScaling_HQStretch"
ZoomOf(scalingType) == IF IsHQ(scalingType) THEN 2 ELSE 1
ObjectCalls == {"glDeleteTextures", "glDeleteBuffersARB", "glGenTextures",
                "glGenBuffersARB", "glTexImage2D"}

\* C13: after GLRender_Init, over any sequence of GLRender_PresentFramebuffer
\* calls with arbitrary scaling-mode changes, the texture and the transfer
\* buffer are deleted and created anew exactly in the frames where the mode
\* toggles between high-quality stretch and any other mode, so that at every
\* texture upload the texture's storage was allocated with zoom 2 if the
\* current mode is high-quality stretch and with zoom 1 otherwise; and
\* GLRender_Shutdown deletes both objects before it deletes the GL context.
C13_TextureFollowsMode ==
    /\ Presented =>
          /\ IF IsHQ(frame.lastFrameScalingType) # IsHQ(frame.gEffectiveScalingType)
             THEN /\ \A c \in ObjectCalls : CallCount(c) = 1
                  /\ CallIndex("glDeleteTextures") < CallIndex("glGenTextures")
                  /\ CallIndex("glDeleteBuffersARB") < CallIndex("glGenBuffersARB")
                  /\ CallIndex("glGenTextures") < CallIndex("glTexImage2D")
             ELSE \A c \in ObjectCalls : ~Called(c)
          /\ gFrameTexture # 0
          /\ gFramePBO # 0
          /\ glTexImage = [width |-> kFrameTextureWidth * ZoomOf(frame.gEffectiveScalingType),
                           height |-> kFrameTextureHeight * ZoomOf(frame.gEffectiveScalingType)]
          /\ frame.glTexImage = glTexImage
          /\ frame.zvw = VISIBLE_WIDTH * ZoomOf(frame.gEffectiveScalingType)
          /\ frame.zvh = VISIBLE_HEIGHT * ZoomOf(frame.gEffectiveScalingType)
          /\ ~build.vita =>
                /\ CallCount("glTexSubImage2D") = 1
                /\ \A c \in ObjectCalls : Called(c) => CallIndex(c) < CallIndex("glTexSubImage2D")
    /\ last.op = "GLRender_Shutdown" =>
          /\ CallCount("glDeleteTextures") = 1
          /\ CallCount("glDeleteBuffersARB") = 1
          /\ CallCount("SDL_GL_DeleteContext") = 1
          /\ CallIndex("glDeleteTextures") < CallIndex("SDL_GL_DeleteContext")
          /\ CallIndex("glDeleteBuffersARB") < CallIndex("SDL_GL_DeleteContext")
          /\ gFrameTexture = 0
          /\ gFramePBO = 0
          /\ gGLContext = 0

\* The driver is shut down after a frame that left high-quality stretch and
\* so uploaded into a texture allocated anew with zoom 1.
C13_Witness ==
    /\ last.op = "GLRender_Shutdown"
    /\ IsHQ(frame.lastFrameScalingType)
    /\ ~IsHQ(frame.gEffectiveScalingType)
    /\ frame.glTexImage.width = kFrameTextureWidth
    /\ frame.zvw = VISIBLE_WIDTH
    /\ glCalls = <<"ShutdownRenderThreads", "glDeleteTextures", "glDeleteBuffersARB",
                   "SDL_GL_DeleteContext">>

====
